---- MODULE Spec2Model ----
(***************************************************************************)
(* Image-difference decision pipeline and the update flows that call it,   *)
(* in the four service variants that compare images:                       *)
(*   ishu.py, scratchfabric.py, scooterscratchfabric.py, scooterscratch.py *)
(*                                                                         *)
(* OpenCV, urllib, Cloudinary and the SQL server are libraries and remote  *)
(* services: what they return is an input of the step that calls them.     *)
(* An image is abstracted to its grey level after the resize to the        *)
(* canonical shape and to the number of ORB keypoints it yields.           *)
(* Contour areas are kept in half pixels (cv2.contourArea returns          *)
(* multiples of 0.5): area2 = 2 * area.                                    *)
(***************************************************************************)
EXTENDS Integers, Sequences, FiniteSets, TLC

----------------------------------------------------------------------------
(* Bounds of the model *)

MaxContours == 1

(* Program constants *)

AreaThresholdIshu == 10
AreaThresholdScratchfabric == 30
AreaThresholdScooterscratchfabric == 10
AreaMin == 5
AreaMax == 1500
AspectMinHalves == 1
AspectMax == 10
SimilarityCutoffTenths == 7

----------------------------------------------------------------------------
(* Values *)

\* Python None for an image that did not decode
None == [st |-> "none", grey |-> 0, kp |-> 0]

Image(g, k) == [st |-> "image", grey |-> g, kp |-> k]

\* the decodable images of the model: a uniform frame, on which ORB finds
\* no keypoint, and two photographs
Images == { Image(0, 0), Image(1, 10), Image(2, 12) }

\* urlopen raised; the bytes do not decode (imdecode / imread give None)
Raised == [st |-> "raise", grey |-> 0, kp |-> 0]

Garbage == [st |-> "garbage", grey |-> 0, kp |-> 0]

\* what urlopen(...).read() followed by cv2.imdecode can produce
FetchOutcomes == {Raised, Garbage} \cup Images

\* what cv2.imread of a local path can produce (it never raises)
FileOutcomes == {Garbage} \cup Images

\* what a debug cv2.imwrite can do: write, return False, raise
DebugOutcomes == {"ok", "fail", "raise"}

\* candidate change regions as cv2.findContours / contourArea / boundingRect
\* report them: area in half pixels, bounding box w x h
Contour(a2, w, h) == [area2 |-> a2, w |-> w, h |-> h]

ContourSamples ==
    { Contour(6, 3, 3), Contour(10, 3, 3), Contour(11, 3, 3),
      Contour(20, 4, 4), Contour(21, 4, 4),
      Contour(60, 6, 6), Contour(61, 6, 6),
      Contour(2999, 40, 40), Contour(3000, 40, 40), Contour(3002, 40, 40),
      Contour(200, 10, 20), Contour(200, 100, 10) }

ContourSets == { cs \in SUBSET ContourSamples : Cardinality(cs) <= MaxContours }

Abs(x) == IF x < 0 THEN 0 - x ELSE x

Max(a, b) == IF a >= b THEN a ELSE b

Min(a, b) == IF a <= b THEN a ELSE b

----------------------------------------------------------------------------
(* The pipeline stages *)

\* cv2.imdecode / cv2.imread: an image, or None
Decode(f) == IF f.st = "image" THEN f ELSE None

\* a difference taken with the wrong sign on one operand
AbsDiffSum(a, b) == Abs(a.grey + b.grey)

\* cv2.absdiff of the two normalised images
AbsDiff(a, b) == Abs(a.grey - b.grey)

\* blur, Canny, closing, findContours: an all-zero difference image has no
\* edge, so no contour; otherwise the library reports the contours cs
FindContours(diff, cs) == IF diff = 0 THEN {} ELSE cs

\* the threshold itself let through
AreaAtLeast(c, threshold) == c.area2 >= 2 * threshold

\* cv2.contourArea(contour) > threshold
AreaAbove(c, threshold) == c.area2 > 2 * threshold

\* the band with its edges included
InBandInclusive(c) ==
    /\ 2 * AreaMin <= c.area2
    /\ c.area2 <= 2 * AreaMax
    /\ c.h # 0
    /\ AspectMinHalves * c.h <= 2 * c.w
    /\ c.w <= AspectMax * c.h

\* 5 < area < 1500 and 0.5 < aspect_ratio < 10.0, aspect_ratio = w / h if h != 0 else 0
InBand(c) ==
    /\ 2 * AreaMin < c.area2
    /\ c.area2 < 2 * AreaMax
    /\ c.h # 0
    /\ AspectMinHalves * c.h < 2 * c.w
    /\ c.w < AspectMax * c.h

\* what a detect function hands back, with the points it went through
DetectResult(res, exFetched, decided, flag) ==
    [result |-> res, exFetched |-> exFetched, decided |-> decided, flag |-> flag]

\* ishu.py: both images come from URLs
detect_ishu(newF, exF, cs) ==
    IF newF = Raised THEN DetectResult(FALSE, FALSE, FALSE, FALSE)
    ELSE IF Decode(newF) = None THEN DetectResult(FALSE, FALSE, FALSE, FALSE)
    ELSE IF exF = Raised THEN DetectResult(FALSE, TRUE, FALSE, FALSE)
    ELSE IF Decode(exF) = None THEN DetectResult(TRUE, TRUE, FALSE, FALSE)
    ELSE LET contours == FindContours(AbsDiff(newF, exF), cs)
             scratch_detected == \E c \in contours : AreaAbove(c, AreaThresholdIshu)
         IN  DetectResult(scratch_detected, TRUE, TRUE, scratch_detected)

\* scratchfabric.py: the new image is a local file; four debug images are
\* written before the contour loop, inside the try block
detect_scratchfabric(newF, exF, cs, dbg) ==
    IF Decode(newF) = None THEN DetectResult(FALSE, FALSE, FALSE, FALSE)
    ELSE IF exF = Raised THEN DetectResult(FALSE, TRUE, FALSE, FALSE)
    ELSE IF Decode(exF) = None THEN DetectResult(TRUE, TRUE, FALSE, FALSE)
    ELSE IF dbg = "raise" THEN DetectResult(FALSE, TRUE, FALSE, FALSE)
    ELSE LET contours == FindContours(AbsDiff(newF, exF), cs)
             scratch_detected == \E c \in contours : AreaAbove(c, AreaThresholdScratchfabric)
         IN  DetectResult(scratch_detected, TRUE, TRUE, scratch_detected)

\* scooterscratchfabric.py: local file, no debug write
detect_scooterscratchfabric(newF, exF, cs) ==
    IF Decode(newF) = None THEN DetectResult(FALSE, FALSE, FALSE, FALSE)
    ELSE IF exF = Raised THEN DetectResult(FALSE, TRUE, FALSE, FALSE)
    ELSE IF Decode(exF) = None THEN DetectResult(TRUE, TRUE, FALSE, FALSE)
    ELSE LET contours == FindContours(AbsDiff(newF, exF), cs)
             scratch_detected ==
                 \E c \in contours : AreaAbove(c, AreaThresholdScooterscratchfabric)
         IN  DetectResult(scratch_detected, TRUE, TRUE, scratch_detected)

\* scooterscratch.py: ORB feature matching. new_image / existing_image are
\* images or None; m is the number of cross-checked matches BFMatcher reports
\* the comparison with the cutoff turned round
SimilarityBelow(m, kp1, kp2) == 10 * m < SimilarityCutoffTenths * Max(kp1, kp2)

SimilarityAbove(m, kp1, kp2) == 10 * m > SimilarityCutoffTenths * Max(kp1, kp2)

\* missing descriptors let through as similar
compare_images_no_descriptor_check(new_image, existing_image, m) ==
    IF new_image = None \/ existing_image = None THEN FALSE
    ELSE IF new_image.kp = 0 \/ existing_image.kp = 0 THEN TRUE
    ELSE SimilarityAbove(m, new_image.kp, existing_image.kp)

compare_images_for_similarity(new_image, existing_image, m) ==
    IF new_image = None \/ existing_image = None THEN FALSE
    ELSE IF new_image.kp = 0 \/ existing_image.kp = 0 THEN FALSE
    ELSE SimilarityAbove(m, new_image.kp, existing_image.kp)

\* scooterscratch.py: the contour check; the debug image is written after
\* the contour loop and before the return, inside the try block
detect_scratches(new_image, existing_image, cs, dbg) ==
    IF new_image = None \/ existing_image = None
    THEN DetectResult(FALSE, TRUE, FALSE, FALSE)
    ELSE LET contours == FindContours(AbsDiff(new_image, existing_image), cs)
             scratch_detected == \E c \in contours : InBand(c)
         IN  IF dbg = "raise"
             THEN DetectResult(FALSE, TRUE, TRUE, scratch_detected)
             ELSE DetectResult(scratch_detected, TRUE, TRUE, scratch_detected)

----------------------------------------------------------------------------
(* The services: one table of vehicle rows, update requests against it *)

Variants == {"ishu", "scratchfabric", "scooterscratchfabric", "scooterscratch"}

\* ishu.py and scooterscratch.py upload the new image before they compare;
\* scratchfabric.py and scooterscratchfabric.py compare a local file first
UploadsFirst(v) == v \in {"ishu", "scooterscratch"}

Reqs == {"r1", "r2"}

\* the requests that run under Spec
SeqReqs == {"r1"}

Cols == {"front_view", "back_view"}

\* three stored rows; rows 1 and 2 carry the (segment_id, model_type) the
\* requests name, row 3 another one
RowIds == {1, 2, 3}

RowKey == [i \in RowIds |-> IF i = 3 THEN "other" ELSE "key"]

ReqKey == "key"

\* a column reference: NULL / empty, a previously stored URL, or the URL
\* the storage service returned for upload number n of request req
NoUrl == [kind |-> "null", req |-> "none", col |-> "none", n |-> 0]

StoredUrl(row, col) == [kind |-> "stored", req |-> "none", col |-> col, n |-> row]

UploadUrl(r, col, k) == [kind |-> "upload", req |-> r, col |-> col, n |-> k]

\* Python truthiness of a URL value (None and '' are falsy)
Truthy(url) == url # NoUrl

\* image_paths / request.files of a request, in iteration order
PathSeqs == { <<"front_view">>, <<"front_view", "back_view">> }

VARIABLES
    variant,      \* which service is deployed
    db,           \* the table: row -> column -> reference
    db0,          \* the table as it was before the requests (history)
    paths,        \* per request: its columns, in order
    pc,           \* per request: position in the handler
    ci,           \* per request: index of the current column
    ri,           \* per request: index of the current row of cars
    cars,         \* per request: rows retrieved for the current column
    newUrl,       \* per request: URL of the uploaded new image, or NoUrl
    results,      \* per request: the result entries appended so far
    http,         \* per request: HTTP status answered, 0 before
    nUploads,     \* per request: successful uploads so far
    uploaded,     \* per request: URLs the storage service returned (history)
    changedCols,  \* per request: columns a comparison judged changed (history)
    cmp,          \* per request: the comparison its last step made, if any (history)
    nCompared,    \* per request: comparisons made so far, per column and row (history)
    skipped,      \* per request: columns and rows passed over uncompared (history)
    inp,          \* inputs of a direct call of a comparison function
    out,          \* its result
    call,         \* per comparison call running on its own: where it stands
    files,        \* the working directory the debug images are written to
    vehicles,     \* the vehicle table the upload endpoints insert into
    up            \* per upload request: where its handler stands

flowVars == << variant, db, db0, paths, pc, ci, ri, cars, newUrl, results, http,
               nUploads, uploaded, changedCols, cmp, nCompared, skipped >>

callVars == << call, files >>

uploadVars == << vehicles, up >>

vars == << flowVars, inp, out, callVars, uploadVars >>

NoCmp ==
    [ran |-> FALSE, col |-> "none", row |-> 0, newRef |-> NoUrl, exRef |-> NoUrl,
     newSt |-> "none", exSt |-> "none",
     same |-> FALSE, simRan |-> FALSE, desNone |-> FALSE, m |-> 0, kpMax |-> 0,
     contourRan |-> FALSE, decided |-> FALSE, outcome |-> "none"]

NoInput == [fn |-> "none", newF |-> Garbage, exF |-> Garbage, cs |-> {}, dbg |-> "ok", m |-> 0]

NoOutput ==
    [called |-> FALSE, similar |-> FALSE, det |-> DetectResult(FALSE, FALSE, FALSE, FALSE)]

\* the rows of the table a request's key selects, as the SELECT returns them
\* (ordered by id here), each with its reference in the column asked for
RECURSIVE RowsFrom(_, _, _)
RowsFrom(i, col, table) ==
    IF i \notin RowIds THEN << >>
    ELSE IF RowKey[i] = ReqKey
         THEN << [id |-> i, image_url |-> table[i][col]] >> \o RowsFrom(i + 1, col, table)
         ELSE RowsFrom(i + 1, col, table)

retrieve_image_url_from_db(col, table, dbOk) ==
    IF dbOk THEN RowsFrom(1, col, table) ELSE << >>

\* UPDATE <table> SET <column> = ? WHERE segment_id = ? AND model_type = ?
UpdateWhere(table, col, url) ==
    [i \in RowIds |-> IF RowKey[i] = ReqKey THEN [table[i] EXCEPT ![col] = url] ELSE table[i]]

\* the cells of the table that may hold no reference to start with
NullableCells == { << 1, "front_view" >>, << 2, "front_view" >>, << 2, "back_view" >> }

Entry(col, status) == [column |-> col, status |-> status]

NoneCompared == [c \in Cols |-> [i \in RowIds |-> 0]]

\* a column (row 0) or a row of it that the handler passed over
Skip(col, row, why) == [col |-> col, row |-> row, why |-> why]

\* comparison calls and upload requests that are not running
Calls == {"k1", "k2"}

NoImage == [w |-> 0, h |-> 0, ch |-> 0]

IdleCall ==
    [at |-> 0, waiting |-> FALSE, newF |-> Garbage, exF |-> Garbage,
     newShape |-> NoImage, exShape |-> NoImage, trace |-> << >>,
     scored |-> {}, similar |-> FALSE, flag |-> FALSE, verdict |-> "none",
     wrote |-> {}, sideOut |-> {}, returned |-> FALSE]

DebugFiles ==
    {"debug_diff_image.jpg", "debug_blurred_diff.jpg", "debug_edges.jpg",
     "debug_morphed_edges.jpg", "scratch_detection_result.png"}

NoFiles == [f \in DebugFiles |-> "none"]

Uploads == {"u1", "u2"}

\* the image columns of a vehicle row (two of the five of the source)
ImageFields == << "image_data", "front_view" >>

FieldSet == { ImageFields[j] : j \in DOMAIN ImageFields }

\* image_urls = {}: .get(column) gives None for every column
NoImages == [f \in FieldSet |-> NoUrl]

\* conn and cursor are local names of the handler: unbound until assigned.
\* failed names the database call that raised pyodbc.Error, error the text
\* of the JSON error answered, raised an exception that left the handler
IdleUpload ==
    [key |-> "none", given |-> << >>, pc |-> "idle", i |-> 0, image_urls |-> NoImages,
     errors |-> {}, checked |-> "none", http |-> 0, inserted |-> FALSE,
     conn |-> "unbound", cursor |-> "unbound", failed |-> "none", error |-> "none",
     raised |-> FALSE]

InitFlow ==
    /\ variant \in Variants
    /\ \E nulls \in SUBSET NullableCells :
           db = [i \in RowIds |-> [c \in Cols |->
                    IF << i, c >> \in nulls THEN NoUrl ELSE StoredUrl(i, c)]]
    /\ db0 = db
    /\ \E p \in PathSeqs : paths = [r \in Reqs |-> p]
    /\ pc = [r \in Reqs |-> "col"]
    /\ ci = [r \in Reqs |-> 1]
    /\ ri = [r \in Reqs |-> 0]
    /\ cars = [r \in Reqs |-> << >>]
    /\ newUrl = [r \in Reqs |-> NoUrl]
    /\ results = [r \in Reqs |-> << >>]
    /\ http = [r \in Reqs |-> 0]
    /\ nUploads = [r \in Reqs |-> 0]
    /\ uploaded = [r \in Reqs |-> {}]
    /\ changedCols = [r \in Reqs |-> {}]
    /\ cmp = [r \in Reqs |-> NoCmp]
    /\ nCompared = [r \in Reqs |-> NoneCompared]
    /\ skipped = [r \in Reqs |-> {}]

Init ==
    /\ InitFlow
    /\ inp = NoInput
    /\ out = NoOutput
    /\ call = [k \in Calls |-> IdleCall]
    /\ files = NoFiles
    /\ vehicles = {}
    /\ up = [u \in Uploads |-> IdleUpload]

Column(r) == paths[r][ci[r]]

\* a step that compares nothing leaves no comparison behind
Forget(r) == cmp' = [cmp EXCEPT ![r] = NoCmp]

\* where the handler stands once the current row is dealt with: the next
\* row of cars, or the next column
AfterRow(r) ==
    IF ri[r] < Len(cars[r])
    THEN [pc |-> "row", ci |-> ci[r], ri |-> ri[r] + 1]
    ELSE [pc |-> "col", ci |-> ci[r] + 1, ri |-> 0]

GoAfterRow(r) ==
    /\ pc' = [pc EXCEPT ![r] = AfterRow(r).pc]
    /\ ci' = [ci EXCEPT ![r] = AfterRow(r).ci]
    /\ ri' = [ri EXCEPT ![r] = AfterRow(r).ri]

Append1(r, status) == results' = [results EXCEPT ![r] = Append(@, Entry(Column(r), status))]

\* cloudinary.uploader.upload: a URL, or None when it raised
upload_image_to_cloudinary(r, ok) ==
    IF ok THEN UploadUrl(r, Column(r), nUploads[r] + 1) ELSE NoUrl

\* ishu.py and scooterscratch.py: the column loop starts by uploading the
\* new image; a failed upload skips the column
UploadFirst(r) ==
    /\ pc[r] = "col"
    /\ ci[r] <= Len(paths[r])
    /\ UploadsFirst(variant)
    /\ \E ok \in BOOLEAN :
         LET url == upload_image_to_cloudinary(r, ok)
         IN  IF Truthy(url)
             THEN /\ newUrl' = [newUrl EXCEPT ![r] = url]
                  /\ nUploads' = [nUploads EXCEPT ![r] = @ + 1]
                  /\ uploaded' = [uploaded EXCEPT ![r] = @ \cup {url}]
                  /\ pc' = [pc EXCEPT ![r] = "retrieve"]
                  /\ UNCHANGED << ci, results, skipped >>
             ELSE /\ ci' = [ci EXCEPT ![r] = @ + 1]
                  /\ results' = [results EXCEPT ![r] =
                        IF variant = "ishu"
                        THEN Append(@, Entry(Column(r), "Failed to upload to Cloudinary"))
                        ELSE @]
                  /\ skipped' = [skipped EXCEPT ![r] =
                        @ \cup {Skip(Column(r), 0, "upload failed")}]
                  /\ UNCHANGED << newUrl, nUploads, uploaded, pc >>
    /\ Forget(r)
    /\ UNCHANGED << variant, db, db0, paths, ri, cars, http, changedCols, nCompared,
                    inp, out, callVars, uploadVars >>

\* the SELECT of the rows of the request's key, for the current column
Retrieve(r) ==
    /\ \/ pc[r] = "retrieve"
       \/ pc[r] = "col" /\ ci[r] <= Len(paths[r]) /\ ~UploadsFirst(variant)
    /\ \E dbOk \in BOOLEAN :
         LET rows == retrieve_image_url_from_db(Column(r), db, dbOk)
         IN  /\ cars' = [cars EXCEPT ![r] = rows]
             /\ IF rows = << >>
                THEN /\ pc' = [pc EXCEPT ![r] = "col"]
                     /\ ci' = [ci EXCEPT ![r] = @ + 1]
                     /\ ri' = [ri EXCEPT ![r] = 0]
                ELSE /\ pc' = [pc EXCEPT ![r] = "row"]
                     /\ ri' = [ri EXCEPT ![r] = 1]
                     /\ UNCHANGED ci
             /\ skipped' = [skipped EXCEPT ![r] =
                   IF dbOk THEN @ ELSE @ \cup {Skip(Column(r), 0, "select failed")}]
    /\ Forget(r)
    /\ UNCHANGED << variant, db, db0, paths, newUrl, results, http, nUploads, uploaded,
                    changedCols, nCompared, inp, out, callVars, uploadVars >>

\* the existing reference of a row other than the current one
ExistingUrlOfFirstRow(r) == cars[r][1].image_url

\* existing_image_url = car['image_url'], for the current row of the loop
ExistingUrl(r) == cars[r][ri[r]].image_url

\* the local path image_paths[column] names
PathRef(r, col) == [kind |-> "path", req |-> r, col |-> col, n |-> 0]

\* the new image handed to the comparison: the URL the upload returned, or
\* the local path of the column
NewRef(r) == IF UploadsFirst(variant) THEN newUrl[r] ELSE PathRef(r, Column(r))

\* one more comparison of column col with row i
Counted(n, col, i) == [n EXCEPT ![col][i] = @ + 1]

\* the contours reported inside an update flow: one between the two lower
\* thresholds and inside the band, one above both thresholds and inside the
\* band, one above the band
FlowContourSamples == { Contour(21, 4, 4), Contour(61, 6, 6), Contour(3002, 40, 40) }

FlowContourSets == { cs \in SUBSET FlowContourSamples : Cardinality(cs) <= MaxContours }

\* the contour sets the library can report for a pair: none to choose when
\* no contour is extracted or the difference image is all zero
CsFor(newF, exF) ==
    IF newF.st = "image" /\ exF.st = "image" /\ AbsDiff(newF, exF) # 0
    THEN FlowContourSets ELSE {{}}

BothImages(newF, exF) == newF.st = "image" /\ exF.st = "image"

\* the status a handler reports for a comparison that returned False
NoChangeStatus(v) ==
    IF v = "scooterscratchfabric" THEN "No scratches detected, image retained"
    ELSE "No change"

\* rows without an existing reference are not compared
NoExisting(r) ==
    /\ pc[r] = "row"
    /\ variant # "scooterscratchfabric"
    /\ ~Truthy(ExistingUrl(r))
    /\ results' = [results EXCEPT ![r] =
          IF variant = "scooterscratch"
          THEN Append(@, Entry(Column(r), "No existing image found, no update made."))
          ELSE @]
    /\ GoAfterRow(r)
    /\ Forget(r)
    /\ UNCHANGED << variant, db, db0, paths, cars, newUrl, http, nUploads, uploaded,
                    changedCols, nCompared, skipped, inp, out, callVars, uploadVars >>

\* scooterscratchfabric.py: the row's own checks before the comparison:
\* os.path.exists(new_image_path), then the existing reference
RowWithoutComparison(r) ==
    /\ pc[r] = "row"
    /\ variant = "scooterscratchfabric"
    /\ \E exists \in BOOLEAN :
         /\ exists => ~Truthy(ExistingUrl(r))
         /\ Append1(r, IF exists THEN NoChangeStatus(variant) ELSE "File not found")
         /\ skipped' = [skipped EXCEPT ![r] =
               IF exists THEN @
               ELSE @ \cup {Skip(Column(r), cars[r][ri[r]].id, "file not found")}]
    /\ GoAfterRow(r)
    /\ Forget(r)
    /\ UNCHANGED << variant, db, db0, paths, cars, newUrl, http, nUploads, uploaded,
                    changedCols, nCompared, inp, out, callVars, uploadVars >>

\* the detect_scratches_or_differences of the deployed variant
detect_scratches_or_differences(v, newF, exF, cs, dbg) ==
    IF v = "ishu" THEN detect_ishu(newF, exF, cs)
    ELSE IF v = "scratchfabric" THEN detect_scratchfabric(newF, exF, cs, dbg)
    ELSE detect_scooterscratchfabric(newF, exF, cs)

\* what the caller does with the value detect_scratches_or_differences returned
IssuesDetected(d) == d.result

CmpOfDetect(r, newF, exF, d) ==
    [ran |-> TRUE, col |-> Column(r), row |-> cars[r][ri[r]].id,
     newRef |-> NewRef(r), exRef |-> ExistingUrl(r),
     newSt |-> newF.st, exSt |-> IF d.exFetched THEN exF.st ELSE "notfetched",
     same |-> BothImages(newF, exF) /\ newF = exF,
     simRan |-> FALSE, desNone |-> FALSE, m |-> 0, kpMax |-> 0,
     contourRan |-> d.decided, decided |-> d.decided,
     outcome |-> IF d.result THEN "changed" ELSE "unchanged"]

\* ishu.py, scratchfabric.py, scooterscratchfabric.py: one row with an
\* existing reference is compared against the new image
Compare(r) ==
    /\ pc[r] = "row"
    /\ variant # "scooterscratch"
    /\ Truthy(ExistingUrl(r))
    /\ \E newF \in (IF variant = "ishu" THEN FetchOutcomes ELSE FileOutcomes) :
       \E exF \in (IF newF.st = "image" THEN FetchOutcomes ELSE {Raised}) :
       \E dbg \in (IF variant = "scratchfabric" /\ BothImages(newF, exF)
                   THEN DebugOutcomes ELSE {"ok"}) :
       \E cs \in (IF dbg = "raise" THEN {{}} ELSE CsFor(newF, exF)) :
         LET d == detect_scratches_or_differences(variant, newF, exF, cs, dbg)
         IN  /\ cmp' = [cmp EXCEPT ![r] = CmpOfDetect(r, newF, exF, d)]
             /\ nCompared' = [nCompared EXCEPT ![r] = Counted(@, Column(r), cars[r][ri[r]].id)]
             /\ IF IssuesDetected(d)
                THEN /\ changedCols' = [changedCols EXCEPT ![r] = @ \cup {Column(r)}]
                     /\ pc' = [pc EXCEPT ![r] = IF variant = "ishu" THEN "update" ELSE "upload"]
                     /\ UNCHANGED << ci, ri, results >>
                ELSE /\ Append1(r, NoChangeStatus(variant))
                     /\ GoAfterRow(r)
                     /\ UNCHANGED changedCols
    /\ UNCHANGED << variant, db, db0, paths, cars, newUrl, http, nUploads, uploaded,
                    skipped, inp, out, callVars, uploadVars >>

\* scooterscratch.py, process_images: what happens to one pair once both
\* URLs were opened: decode, feature check, then the contour check
process_pair(newF, exF, m, cs, dbg) ==
    LET new_image == Decode(newF)
        existing_image == Decode(exF)
        is_similar == compare_images_for_similarity(new_image, existing_image, m)
    IN  [similar |-> is_similar,
         det |-> IF is_similar
                 THEN detect_scratches(new_image, existing_image, cs, dbg)
                 ELSE DetectResult(FALSE, TRUE, FALSE, FALSE)]

MatchesFor(newF, exF) ==
    IF BothImages(newF, exF) THEN 0..Min(newF.kp, exF.kp) ELSE {0}

CmpOfPair(r, newF, exF, m, p) ==
    [ran |-> TRUE, col |-> Column(r), row |-> cars[r][ri[r]].id,
     newRef |-> NewRef(r), exRef |-> ExistingUrl(r),
     newSt |-> newF.st, exSt |-> exF.st,
     same |-> BothImages(newF, exF) /\ newF = exF,
     simRan |-> TRUE,
     desNone |-> BothImages(newF, exF) /\ (newF.kp = 0 \/ exF.kp = 0),
     m |-> m, kpMax |-> IF BothImages(newF, exF) THEN Max(newF.kp, exF.kp) ELSE 0,
     contourRan |-> p.similar, decided |-> p.det.decided,
     outcome |-> IF p.det.result THEN "changed" ELSE "unchanged"]

CmpOfException(r, newF, exF) ==
    [NoCmp EXCEPT !.ran = TRUE, !.col = Column(r), !.row = cars[r][ri[r]].id,
                  !.newRef = NewRef(r), !.exRef = ExistingUrl(r),
                  !.newSt = newF.st,
                  !.exSt = IF newF = Raised THEN "notfetched" ELSE exF.st,
                  !.outcome = "exception"]

\* scooterscratch.py: one row with an existing reference; urlopen raising
\* ends the request in the handler's except clause
ProcessPair(r) ==
    /\ pc[r] = "row"
    /\ variant = "scooterscratch"
    /\ Truthy(ExistingUrl(r))
    /\ nCompared' = [nCompared EXCEPT ![r] = Counted(@, Column(r), cars[r][ri[r]].id)]
    /\ \E newF \in FetchOutcomes :
       \E exF \in (IF newF = Raised THEN {Raised} ELSE FetchOutcomes) :
         IF newF = Raised \/ exF = Raised
         THEN /\ cmp' = [cmp EXCEPT ![r] = CmpOfException(r, newF, exF)]
              /\ http' = [http EXCEPT ![r] = 500]
              /\ pc' = [pc EXCEPT ![r] = "done"]
              /\ UNCHANGED << ci, ri, results, changedCols >>
         ELSE \E m \in MatchesFor(newF, exF) :
              \E dbg \in (IF compare_images_for_similarity(Decode(newF), Decode(exF), m)
                          THEN DebugOutcomes ELSE {"ok"}) :
              \E cs \in (IF compare_images_for_similarity(Decode(newF), Decode(exF), m)
                            /\ dbg # "raise"
                         THEN CsFor(newF, exF) ELSE {{}}) :
                LET p == process_pair(newF, exF, m, cs, dbg)
                IN  /\ cmp' = [cmp EXCEPT ![r] = CmpOfPair(r, newF, exF, m, p)]
                    /\ UNCHANGED http
                    /\ IF ~p.similar
                       THEN /\ Append1(r, "Images are different, no update made.")
                            /\ GoAfterRow(r)
                            /\ UNCHANGED changedCols
                       ELSE IF IssuesDetected(p.det)
                       THEN /\ changedCols' = [changedCols EXCEPT ![r] = @ \cup {Column(r)}]
                            /\ pc' = [pc EXCEPT ![r] = "update"]
                            /\ UNCHANGED << ci, ri, results >>
                       ELSE /\ Append1(r, "No scratches detected, image retained.")
                            /\ GoAfterRow(r)
                            /\ UNCHANGED changedCols
    /\ UNCHANGED << variant, db, db0, paths, cars, newUrl, nUploads, uploaded, skipped, inp, out, callVars, uploadVars >>

\* the check of the upload's result left out
UploadUnchecked(url) == TRUE

\* if new_image_url: the reference is written only for a URL that came back
UploadSucceeded(url) == Truthy(url)

\* scratchfabric.py and scooterscratchfabric.py: the new image is uploaded
\* once a comparison returned True
UploadAfter(r) ==
    /\ pc[r] = "upload"
    /\ \E ok \in BOOLEAN :
         LET url == upload_image_to_cloudinary(r, ok)
         IN  IF UploadSucceeded(url)
             THEN /\ newUrl' = [newUrl EXCEPT ![r] = url]
                  /\ nUploads' = [nUploads EXCEPT ![r] = IF Truthy(url) THEN @ + 1 ELSE @]
                  /\ uploaded' = [uploaded EXCEPT ![r] = IF Truthy(url) THEN @ \cup {url} ELSE @]
                  /\ pc' = [pc EXCEPT ![r] = "update"]
                  /\ UNCHANGED << ci, ri, results >>
             ELSE /\ results' = [results EXCEPT ![r] =
                        IF variant = "scooterscratchfabric"
                        THEN Append(@, Entry(Column(r), "(no status)"))
                        ELSE @]
                  /\ GoAfterRow(r)
                  /\ UNCHANGED << newUrl, nUploads, uploaded >>
    /\ Forget(r)
    /\ UNCHANGED << variant, db, db0, paths, cars, http, changedCols, nCompared, skipped, inp, out, callVars, uploadVars >>

UpdatedStatus(v) ==
    IF v = "ishu" THEN "Scratch detected and image updated"
    ELSE IF v = "scratchfabric" THEN "scratch detected and image updated"
    ELSE "Scratches detected, image updated"

ErrorStatus(v) ==
    IF v \in {"ishu", "scratchfabric"} THEN "Error" ELSE "Database error"

\* the UPDATE of the column with the uploaded URL, and its result entry
UpdateRef(r) ==
    /\ pc[r] = "update"
    /\ \E dbOk \in BOOLEAN :
         IF dbOk
         THEN /\ db' = UpdateWhere(db, Column(r), newUrl[r])
              /\ Append1(r, UpdatedStatus(variant))
         ELSE /\ db' = db
              /\ Append1(r, ErrorStatus(variant))
    /\ newUrl' = [newUrl EXCEPT ![r] = IF UploadsFirst(variant) THEN @ ELSE NoUrl]
    /\ GoAfterRow(r)
    /\ Forget(r)
    /\ UNCHANGED << variant, db0, paths, cars, http, nUploads, uploaded, changedCols,
                    nCompared, skipped, inp, out, callVars, uploadVars >>

\* all columns done: the handler answers with the results
Respond(r) ==
    /\ pc[r] = "col"
    /\ ci[r] > Len(paths[r])
    /\ http' = [http EXCEPT ![r] = 200]
    /\ pc' = [pc EXCEPT ![r] = "done"]
    /\ Forget(r)
    /\ UNCHANGED << variant, db, db0, paths, ci, ri, cars, newUrl, results, nUploads,
                    uploaded, changedCols, nCompared, skipped, inp, out, callVars, uploadVars >>

Step(r) ==
    \/ UploadFirst(r)
    \/ Retrieve(r)
    \/ NoExisting(r)
    \/ RowWithoutComparison(r)
    \/ Compare(r)
    \/ ProcessPair(r)
    \/ UploadAfter(r)
    \/ UpdateRef(r)
    \/ Respond(r)

Next == \E r \in SeqReqs : Step(r)

Spec == Init /\ [][Next]_vars

----------------------------------------------------------------------------
(* Two update requests for the same (segment_id, model_type) and the same   *)
(* column, served side by side: the handlers take no lock and open one      *)
(* connection per statement, so their steps interleave freely               *)

InitConcurrent ==
    /\ Init
    /\ paths = [r \in Reqs |-> << "front_view" >>]
    /\ Truthy(db[1]["front_view"])
    /\ ~Truthy(db[2]["front_view"])
    /\ \A i \in RowIds : Truthy(db[i]["back_view"])

NextConcurrent == \E r \in Reqs : Step(r)

SpecConcurrent == InitConcurrent /\ [][NextConcurrent]_vars

----------------------------------------------------------------------------
(* The comparison functions called directly, on every input of the model *)

Input(fn, newF, exF, cs, dbg, m) ==
    [fn |-> fn, newF |-> newF, exF |-> exF, cs |-> cs, dbg |-> dbg, m |-> m]

Output(similar, det) == [called |-> TRUE, similar |-> similar, det |-> det]

\* an image argument of compare_images_for_similarity / detect_scratches
ImageArgs == {Garbage} \cup Images

DetectInputs ==
    { Input("ishu", n, e, cs, "ok", 0) :
        n \in FetchOutcomes, e \in FetchOutcomes, cs \in ContourSets }
    \cup
    { Input("scooterscratchfabric", n, e, cs, "ok", 0) :
        n \in FileOutcomes, e \in FetchOutcomes, cs \in ContourSets }
    \cup
    { Input("scratchfabric", x[1], x[2], x[3], x[4], 0) :
        x \in FileOutcomes \X FetchOutcomes \X ContourSets \X DebugOutcomes }
    \cup
    { Input("detect_scratches", x[1], x[2], x[3], x[4], 0) :
        x \in ImageArgs \X ImageArgs \X ContourSets \X DebugOutcomes }
    \cup
    { Input("process_pair", x[1], x[2], x[3], x[4], x[5]) :
        x \in ImageArgs \X ImageArgs \X FlowContourSets \X {"ok", "raise"} \X (0..12) }

InitDetect ==
    /\ variant = "ishu"
    /\ db = [i \in RowIds |-> [c \in Cols |-> StoredUrl(i, c)]]
    /\ db0 = db
    /\ paths = [r \in Reqs |-> << "front_view" >>]
    /\ pc = [r \in Reqs |-> "done"]
    /\ ci = [r \in Reqs |-> 1]
    /\ ri = [r \in Reqs |-> 0]
    /\ cars = [r \in Reqs |-> << >>]
    /\ newUrl = [r \in Reqs |-> NoUrl]
    /\ results = [r \in Reqs |-> << >>]
    /\ http = [r \in Reqs |-> 0]
    /\ nUploads = [r \in Reqs |-> 0]
    /\ uploaded = [r \in Reqs |-> {}]
    /\ changedCols = [r \in Reqs |-> {}]
    /\ cmp = [r \in Reqs |-> NoCmp]
    /\ nCompared = [r \in Reqs |-> NoneCompared]
    /\ skipped = [r \in Reqs |-> {}]
    /\ inp \in DetectInputs
    /\ out = NoOutput
    /\ call = [k \in Calls |-> IdleCall]
    /\ files = NoFiles
    /\ vehicles = {}
    /\ up = [u \in Uploads |-> IdleUpload]

CallDetect ==
    /\ ~out.called
    /\ inp.fn \in {"ishu", "scratchfabric", "scooterscratchfabric"}
    /\ out' = Output(FALSE,
                 detect_scratches_or_differences(inp.fn, inp.newF, inp.exF, inp.cs, inp.dbg))
    /\ UNCHANGED << flowVars, inp, callVars, uploadVars >>

CallDetectScratches ==
    /\ ~out.called
    /\ inp.fn = "detect_scratches"
    /\ out' = Output(FALSE, detect_scratches(Decode(inp.newF), Decode(inp.exF), inp.cs, inp.dbg))
    /\ UNCHANGED << flowVars, inp, callVars, uploadVars >>

CallProcessPair ==
    /\ ~out.called
    /\ inp.fn = "process_pair"
    /\ LET p == process_pair(inp.newF, inp.exF, inp.m, inp.cs, inp.dbg)
       IN  out' = Output(p.similar, p.det)
    /\ UNCHANGED << flowVars, inp, callVars, uploadVars >>

NextDetect == CallDetect \/ CallDetectScratches \/ CallProcessPair

SpecDetect == InitDetect /\ [][NextDetect]_vars

----------------------------------------------------------------------------
(* One comparison call taken step by step, two calls running side by side *)

CanonicalSize == 500

\* the flow and the direct calls at rest
FlowIdle ==
    /\ db = [i \in RowIds |-> [c \in Cols |-> StoredUrl(i, c)]]
    /\ db0 = db
    /\ paths = [r \in Reqs |-> << "front_view" >>]
    /\ pc = [r \in Reqs |-> "done"]
    /\ ci = [r \in Reqs |-> 1]
    /\ ri = [r \in Reqs |-> 0]
    /\ cars = [r \in Reqs |-> << >>]
    /\ newUrl = [r \in Reqs |-> NoUrl]
    /\ results = [r \in Reqs |-> << >>]
    /\ http = [r \in Reqs |-> 0]
    /\ nUploads = [r \in Reqs |-> 0]
    /\ uploaded = [r \in Reqs |-> {}]
    /\ changedCols = [r \in Reqs |-> {}]
    /\ cmp = [r \in Reqs |-> NoCmp]
    /\ nCompared = [r \in Reqs |-> NoneCompared]
    /\ skipped = [r \in Reqs |-> {}]
    /\ inp = NoInput
    /\ out = NoOutput

\* a library call of the comparison and the value it is applied to: the
\* side for a fetch or a decode, the file name for a debug write, and for an
\* image operation the call that produced its argument
St(op, arg) == [op |-> op, arg |-> arg]

Program(v) ==
    IF v = "ishu"
    THEN << St("urlopen", "new"), St("imdecode", "new"),
            St("urlopen", "existing"), St("imdecode", "existing"),
            St("resize", "imdecode"), St("clahe", "resize"), St("absdiff", "clahe"),
            St("GaussianBlur", "absdiff"), St("Canny", "GaussianBlur"),
            St("morphologyEx", "Canny"), St("findContours", "morphologyEx"),
            St("decide", "findContours") >>
    ELSE IF v = "scratchfabric"
    THEN << St("imread", "new"),
            St("urlopen", "existing"), St("imdecode", "existing"),
            St("resize", "imdecode"), St("clahe", "resize"), St("absdiff", "clahe"),
            St("imwrite", "debug_diff_image.jpg"),
            St("GaussianBlur", "absdiff"), St("Canny", "GaussianBlur"),
            St("imwrite", "debug_blurred_diff.jpg"), St("imwrite", "debug_edges.jpg"),
            St("morphologyEx", "Canny"), St("imwrite", "debug_morphed_edges.jpg"),
            St("findContours", "morphologyEx"), St("decide", "findContours") >>
    ELSE IF v = "scooterscratchfabric"
    THEN << St("imread", "new"),
            St("urlopen", "existing"), St("imdecode", "existing"),
            St("resize", "imdecode"), St("cvtColor", "resize"), St("absdiff", "cvtColor"),
            St("normalize", "absdiff"), St("GaussianBlur", "normalize"),
            St("Canny", "GaussianBlur"), St("findContours", "Canny"),
            St("decide", "findContours") >>
    ELSE << St("urlopen", "new"), St("imdecode", "new"),
            St("urlopen", "existing"), St("imdecode", "existing"),
            St("orb", "imdecode"),
            St("cvtColor", "imdecode"), St("resize", "cvtColor"), St("absdiff", "resize"),
            St("normalize", "absdiff"), St("equalizeHist", "normalize"),
            St("Canny", "equalizeHist"), St("morphologyEx", "Canny"),
            St("findContours", "morphologyEx"), St("decide", "findContours"),
            St("imwrite", "scratch_detection_result.png") >>

ImageOps ==
    {"resize", "cvtColor", "clahe", "absdiff", "normalize", "GaussianBlur",
     "equalizeHist", "Canny", "morphologyEx", "findContours"}

\* cv2.IMREAD_GRAYSCALE gives one channel, the default and IMREAD_COLOR three
Channels(v) == IF v = "scooterscratchfabric" THEN 3 ELSE 1

\* width and height of the photographs as they are decoded: a new image
\* of the canonical size or not, the stored one larger
RawSizes(side) ==
    IF side = "new" THEN { [w |-> 500, h |-> 500], [w |-> 640, h |-> 480] }
    ELSE { [w |-> 800, h |-> 600] }

Shape(size, ch) == [w |-> size.w, h |-> size.h, ch |-> ch]

\* the size left as it is
ResizeNone(shape, width, height) == shape

\* cv2.resize(image, (width, height))
Resize(shape, width, height) == [shape EXCEPT !.w = width, !.h = height]

\* cv2.cvtColor(image, cv2.COLOR_BGR2GRAY); scooterscratch.py converts only
\* an image that has three dimensions
CvtColor(shape) == [shape EXCEPT !.ch = 1]

\* what the server of a URL can send back, and what a local file can hold
CallOutcomes(side) ==
    IF side = "new" THEN {Raised, Garbage, Image(1, 10)}
    ELSE {Raised, Garbage, Image(2, 12)}

\* a debug write of a call: written, or raised
CallDebugOutcomes == {"ok", "raise"}

CallFileOutcomes == {Garbage, Image(1, 10)}

CallMatches(newF, exF) ==
    IF BothImages(newF, exF) THEN {0, Min(newF.kp, exF.kp)} ELSE {0}

CallContourSets(newF, exF) == { cs \in CsFor(newF, exF) : cs \subseteq {Contour(61, 6, 6)} }

InitCalls ==
    /\ variant \in Variants
    /\ FlowIdle
    /\ call = [k \in Calls |-> [IdleCall EXCEPT !.at = 1]]
    /\ files = NoFiles
    /\ vehicles = {}
    /\ up = [u \in Uploads |-> IdleUpload]

Running(k) == call[k].at \in 1..Len(Program(variant)) /\ ~call[k].returned

Cur(k) == Program(variant)[call[k].at]

\* the call leaves its function with a verdict: an early return, or the
\* except clause around the body
Exit(c, verdict) ==
    [c EXCEPT !.at = Len(Program(variant)) + 1, !.waiting = FALSE, !.verdict = verdict]

\* a step passed over
AdvanceTwo(c) == [c EXCEPT !.at = @ + 2]

\* the next statement of the function
Advance(c) == [c EXCEPT !.at = @ + 1]

\* urllib.request.urlopen(url): the request is sent, the call blocks
OpenUrl(k) ==
    /\ Running(k)
    /\ Cur(k).op = "urlopen"
    /\ ~call[k].waiting
    /\ call' = [call EXCEPT ![k].waiting = TRUE]
    /\ UNCHANGED << flowVars, inp, out, files, uploadVars >>

\* the remote server answers the open request: an error, or bytes.
\* In the detect functions urlopen raising is caught and gives False; in
\* process_images it reaches the handler's except clause
ServerAnswers(k) ==
    /\ Running(k)
    /\ call[k].waiting
    /\ \E f \in CallOutcomes(Cur(k).arg) :
         call' = [call EXCEPT ![k] =
            IF f = Raised
            THEN Exit(@, IF variant = "scooterscratch" THEN "exception" ELSE "unchanged")
            ELSE IF Cur(k).arg = "new"
            THEN Advance([@ EXCEPT !.waiting = FALSE, !.newF = f])
            ELSE Advance([@ EXCEPT !.waiting = FALSE, !.exF = f])]
    /\ UNCHANGED << flowVars, inp, out, files, uploadVars >>

\* cv2.imread(new_image_path) and the check of its result
ReadFile(k) ==
    /\ Running(k)
    /\ Cur(k).op = "imread"
    /\ \E f \in CallFileOutcomes :
       \E size \in (IF f.st = "image" THEN RawSizes("new") ELSE {NoImage}) :
         call' = [call EXCEPT ![k] =
            IF Decode(f) = None THEN Exit(@, "unchanged")
            ELSE Advance([@ EXCEPT !.newF = f, !.newShape = Shape(size, Channels(variant))])]
    /\ UNCHANGED << flowVars, inp, out, files, uploadVars >>

\* cv2.imdecode of the bytes read and, in the detect functions, the check of
\* its result: False for the new image, True for the existing one
DecodeBytes(k) ==
    /\ Running(k)
    /\ Cur(k).op = "imdecode"
    /\ LET f == IF Cur(k).arg = "new" THEN call[k].newF ELSE call[k].exF
       IN  \E size \in (IF f.st = "image" THEN RawSizes(Cur(k).arg) ELSE {NoImage}) :
             call' = [call EXCEPT ![k] =
                IF Decode(f) = None /\ variant # "scooterscratch"
                THEN Exit(@, IF Cur(k).arg = "new" THEN "unchanged" ELSE "changed")
                ELSE IF Decode(f) = None THEN Advance(@)
                ELSE IF Cur(k).arg = "new"
                THEN Advance([@ EXCEPT !.newShape = Shape(size, Channels(variant))])
                ELSE Advance([@ EXCEPT !.exShape = Shape(size, Channels(variant))])]
    /\ UNCHANGED << flowVars, inp, out, files, uploadVars >>

Scored(scorer, c) == [scorer |-> scorer, new |-> c.newShape, ex |-> c.exShape]

\* compare_images_for_similarity(new_image, existing_image) on the images as
\* decoded; not similar ends the pair
FeatureScore(k) ==
    /\ Running(k)
    /\ Cur(k).op = "orb"
    /\ \E m \in CallMatches(call[k].newF, call[k].exF) :
         LET is_similar ==
                 compare_images_for_similarity(Decode(call[k].newF), Decode(call[k].exF), m)
         IN  call' = [call EXCEPT ![k] =
                LET c == [@ EXCEPT !.scored = @ \cup {Scored("feature", call[k])},
                                   !.similar = is_similar]
                IN  IF is_similar THEN Advance(c) ELSE Exit(c, "unchanged")]
    /\ UNCHANGED << flowVars, inp, out, files, uploadVars >>

\* an OpenCV operation on the images or on the difference image. cv2.absdiff
\* raises on operands of different shapes
Transform(k) ==
    /\ Running(k)
    /\ Cur(k).op \in ImageOps
    /\ LET op == Cur(k).op
           c0 == call[k]
           c1 == [c0 EXCEPT !.trace = Append(@, Cur(k))]
       IN  call' = [call EXCEPT ![k] =
              IF op = "resize"
              THEN Advance([c1 EXCEPT
                      !.newShape = Resize(@, CanonicalSize, CanonicalSize),
                      !.exShape = Resize(@, CanonicalSize, CanonicalSize)])
              ELSE IF op = "cvtColor"
              THEN Advance([c1 EXCEPT !.newShape = CvtColor(@), !.exShape = CvtColor(@)])
              ELSE IF op = "absdiff"
              THEN IF c0.newShape = c0.exShape
                   THEN Advance([c1 EXCEPT !.scored = @ \cup {Scored("contour", c0)}])
                   ELSE Exit([c1 EXCEPT !.scored = @ \cup {Scored("contour", c0)}],
                             "unchanged")
              ELSE Advance(c1)]
    /\ UNCHANGED << flowVars, inp, out, files, uploadVars >>

\* cv2.imwrite(name, image) to a fixed name in the working directory
WriteDebug(k) ==
    /\ Running(k)
    /\ Cur(k).op = "imwrite"
    /\ \E dbg \in CallDebugOutcomes :
         /\ call' = [call EXCEPT ![k] =
               IF dbg = "raise" THEN Exit(@, "unchanged")
               ELSE Advance([@ EXCEPT !.wrote = @ \cup {Cur(k).arg}])]
         /\ files' = IF dbg = "ok" THEN [files EXCEPT ![Cur(k).arg] = k] ELSE files
    /\ UNCHANGED << flowVars, inp, out, uploadVars >>

\* the loop over the contours found
Decide(k) ==
    /\ Running(k)
    /\ Cur(k).op = "decide"
    /\ \E cs \in CallContourSets(call[k].newF, call[k].exF) :
         LET d == IF variant = "scooterscratch"
                  THEN detect_scratches(Decode(call[k].newF), Decode(call[k].exF), cs, "ok")
                  ELSE detect_scratches_or_differences(variant, call[k].newF, call[k].exF,
                                                       cs, "ok")
         IN  call' = [call EXCEPT ![k] =
                Advance([@ EXCEPT !.flag = d.flag,
                                  !.verdict = IF d.flag THEN "changed" ELSE "unchanged"])]
    /\ UNCHANGED << flowVars, inp, out, files, uploadVars >>

\* the call returns; what its debug files hold at that moment
Return(k) ==
    /\ call[k].at > Len(Program(variant))
    /\ ~call[k].returned
    /\ call' = [call EXCEPT ![k] =
          [@ EXCEPT !.returned = TRUE,
                    !.sideOut = { [file |-> f, holds |-> files[f]] : f \in call[k].wrote }]]
    /\ UNCHANGED << flowVars, inp, out, files, uploadVars >>

\* the steps the call's own thread takes
CallStep(k) ==
    \/ OpenUrl(k)
    \/ ReadFile(k)
    \/ DecodeBytes(k)
    \/ FeatureScore(k)
    \/ Transform(k)
    \/ WriteDebug(k)
    \/ Decide(k)
    \/ Return(k)

NextCalls == \E k \in Calls : CallStep(k) \/ ServerAnswers(k)

\* each call runs in a thread of its own that the scheduler keeps running;
\* nothing makes a remote server answer
SpecCalls == InitCalls /\ [][NextCalls]_vars /\ \A k \in Calls : WF_vars(CallStep(k))

----------------------------------------------------------------------------
(* The upload endpoints: ika.py and john.py upload_car, scooterfabric.py     *)
(* upload_scooter, two requests side by side                                 *)

UploadServices == {"ika", "john", "scooterfabric"}

\* the images a request carries: request.files in ika.py, the keys of
\* image_paths in john.py and scooterfabric.py, in iteration order
Givens == { << >>, << "image_data" >>, << "image_data", "front_view" >> }

VehicleRow(key, by, urls) == [key |-> key, by |-> by, image_urls |-> urls]

\* the tables a request can find: empty, or holding a row of the key "key"
\* inserted before
StoredTables ==
    { << >>, << VehicleRow("key", "none", [f \in FieldSet |-> StoredUrl(1, f)]) >> }

InitUpload ==
    /\ variant \in UploadServices
    /\ FlowIdle
    /\ call = [k \in Calls |-> IdleCall]
    /\ files = NoFiles
    /\ vehicles \in StoredTables
    /\ \E key2 \in {"key", "other"} :
         up = [u \in Uploads |->
                 [IdleUpload EXCEPT !.pc = "start",
                                    !.key = IF u = "u1" THEN "key" ELSE key2]]

\* the fields the image loop goes through
ImageLoop(v, given) == IF v = "ika" THEN ImageFields ELSE given

Given(u) == { up[u].given[j] : j \in DOMAIN up[u].given }

Answer(q, status) == [q EXCEPT !.pc = "done", !.http = status]

\* the validation of the required fields; scooterfabric.py also wants
\* image_paths to be non-empty
Validate(u) ==
    /\ up[u].pc = "start"
    /\ \E valid \in BOOLEAN : \E given \in Givens :
         up' = [up EXCEPT ![u] =
            IF ~valid \/ (variant = "scooterfabric" /\ given = << >>)
            THEN Answer(@, 400)
            ELSE [@ EXCEPT !.pc = "images", !.i = 1, !.given = given]]
    /\ UNCHANGED << flowVars, inp, out, callVars, vehicles >>

\* what can happen to one image: uploaded, its URL not accessible (john.py
\* checks it with a HEAD request), or the upload failed
UploadResults(v) ==
    IF v = "john" THEN {"uploaded", "unreachable", "failed"} ELSE {"uploaded", "failed"}

\* one turn of the image loop. ika.py and john.py collect the failures in
\* errors; scooterfabric.py answers 500 at the first upload that raises
UploadImage(u) ==
    /\ up[u].pc = "images"
    /\ up[u].i <= Len(ImageLoop(variant, up[u].given))
    /\ LET f == ImageLoop(variant, up[u].given)[up[u].i]
       IN  \E res \in (IF variant = "ika" /\ f \notin Given(u)
                       THEN {"missing"} ELSE UploadResults(variant)) :
             up' = [up EXCEPT ![u] =
                IF res = "uploaded"
                THEN [@ EXCEPT !.image_urls[f] = UploadUrl(u, f, 1), !.i = @ + 1]
                ELSE IF variant = "scooterfabric" THEN Answer(@, 500)
                ELSE [@ EXCEPT !.errors = @ \cup {f}, !.i = @ + 1]]
    /\ UNCHANGED << flowVars, inp, out, callVars, vehicles >>

\* after the loop: ika.py and john.py answer 207 when errors is not empty
EndOfImages(u) ==
    /\ up[u].pc = "images"
    /\ up[u].i > Len(ImageLoop(variant, up[u].given))
    /\ up' = [up EXCEPT ![u] =
          IF variant # "scooterfabric" /\ up[u].errors # {}
          THEN Answer(@, 207)
          ELSE [@ EXCEPT !.pc = "connect"]]
    /\ UNCHANGED << flowVars, inp, out, callVars, vehicles >>

\* the finally clause. ika.py and john.py close the names that are in
\* locals(). scooterfabric.py tests "if cursor:" first: while cursor is not
\* assigned the test raises UnboundLocalError, which replaces the response
\* being returned and leaves conn as it is
Finally(v, q) ==
    IF v = "scooterfabric" /\ q.cursor = "unbound"
    THEN [q EXCEPT !.raised = TRUE, !.http = 500, !.error = "none"]
    ELSE [q EXCEPT !.cursor = IF @ = "open" THEN "closed" ELSE @,
                   !.conn = IF @ = "open" THEN "closed" ELSE @]

\* a return from inside the try block: the response, then the finally clause
AnswerInTry(v, q, status, error) ==
    Finally(v, [Answer(q, status) EXCEPT !.error = error])

\* the error text answered for a pyodbc.Error: the handler's except clause,
\* or in ika.py and john.py the None insert_car_details hands back
DatabaseErrorText(v, failed) ==
    IF v = "scooterfabric" THEN "Database error"
    ELSE IF failed = "statement" THEN "Failed to insert car details"
    ELSE "Database error occurred"

DatabaseError(v, q, failed) ==
    AnswerInTry(v, [q EXCEPT !.failed = failed], 500, DatabaseErrorText(v, failed))

\* conn = <connect>; cursor = conn.cursor(): either can raise pyodbc.Error
Connect(u) ==
    /\ up[u].pc = "connect"
    /\ \E res \in {"ok", "connect", "cursor"} :
         up' = [up EXCEPT ![u] =
            IF res = "ok"
            THEN [@ EXCEPT !.conn = "open", !.cursor = "open", !.pc = "select"]
            ELSE IF res = "connect"
            THEN DatabaseError(variant, @, "connect")
            ELSE DatabaseError(variant, [@ EXCEPT !.conn = "open"], "cursor")]
    /\ UNCHANGED << flowVars, inp, out, callVars, vehicles >>

\* a check that finds nothing
KeyNeverExists(rows, key) == FALSE

\* SELECT 1 FROM <table> WHERE segment_id = ? AND segment_name = ? AND
\* model_type = ?, then fetchone()
KeyExists(rows, key) == \E j \in DOMAIN rows : rows[j].key = key

AlreadyExistsStatus(v) == IF v = "scooterfabric" THEN 409 ELSE 200

\* the existence check (in scooterfabric.py after create_table); a
\* pyodbc.Error gives 500
SelectExisting(u) ==
    /\ up[u].pc = "select"
    /\ \E dbOk \in BOOLEAN :
         up' = [up EXCEPT ![u] =
            IF ~dbOk THEN DatabaseError(variant, [@ EXCEPT !.checked = "error"], "statement")
            ELSE IF KeyExists(vehicles, up[u].key)
            THEN AnswerInTry(variant, [@ EXCEPT !.checked = "found"],
                             AlreadyExistsStatus(variant), "none")
            ELSE [@ EXCEPT !.checked = "absent", !.pc = "insert"]]
    /\ UNCHANGED << flowVars, inp, out, callVars, vehicles >>

\* the INSERT and its commit. scooter_ev carries UNIQUE (segment_id,
\* segment_name, model_type): a second row of a key raises pyodbc.Error
InsertRow(u) ==
    /\ up[u].pc = "insert"
    /\ \E dbOk \in BOOLEAN :
         IF dbOk /\ ~(variant = "scooterfabric" /\ KeyExists(vehicles, up[u].key))
         THEN /\ vehicles' = Append(vehicles, VehicleRow(up[u].key, u, up[u].image_urls))
              /\ up' = [up EXCEPT ![u] =
                    AnswerInTry(variant, [@ EXCEPT !.inserted = TRUE], 201, "none")]
         ELSE /\ vehicles' = vehicles
              /\ up' = [up EXCEPT ![u] = DatabaseError(variant, @, "statement")]
    /\ UNCHANGED << flowVars, inp, out, callVars >>

UploadStep(u) ==
    \/ Validate(u)
    \/ UploadImage(u)
    \/ EndOfImages(u)
    \/ Connect(u)
    \/ SelectExisting(u)
    \/ InsertRow(u)

NextUpload == \E u \in Uploads : UploadStep(u)

SpecUpload == InitUpload /\ [][NextUpload]_vars

----------------------------------------------------------------------------
(* The claims *)

LastStatus(r) ==
    IF results[r] = << >> THEN "none" ELSE results[r][Len(results[r])].status

Compared(r) == cmp[r].ran

\* C1: in every detect_scratches_or_differences, when the new image cannot
\* be decoded the outcome is an explicit error the caller can tell from a
\* verdict, never "unchanged".
C1_NewUndecodableIsError ==
    \A r \in Reqs :
        (Compared(r) /\ variant # "scooterscratch" /\ cmp[r].newSt = "garbage")
            => (cmp[r].outcome \notin {"changed", "unchanged"}
                /\ LastStatus(r) # NoChangeStatus(variant))

\* C2: in every variant, when the new image decodes and the existing image
\* is fetched but cannot be decoded, the verdict is changed = true and the
\* update path is taken.
C2_ExistingUndecodableIsChanged ==
    \A r \in Reqs :
        (Compared(r) /\ cmp[r].newSt = "image" /\ cmp[r].exSt = "garbage")
            => (cmp[r].outcome = "changed" /\ pc[r] \in {"upload", "update"})

\* C3: when fetching the existing image fails, the comparison ends in an
\* error on the existing side, the decision step does not run, and what the
\* caller reports differs from what it reports for "no change".
C3_ExistingUnreachableIsError ==
    \A r \in Reqs :
        (Compared(r) /\ cmp[r].newSt = "image" /\ cmp[r].exSt = "raise")
            => (/\ cmp[r].outcome = "exception"
                /\ ~cmp[r].decided
                /\ LastStatus(r) # NoChangeStatus(variant))

\* C4: when the verdict for a (column, row) is changed = false, nothing was
\* written in that request for that column: no upload of the new image and
\* no update of the row's reference.
C4_UnchangedMeansNoWrite ==
    \A r \in Reqs :
        (Compared(r) /\ cmp[r].outcome = "unchanged")
            => (/\ \A u \in uploaded[r] : u.col # cmp[r].col
                /\ db[cmp[r].row][cmp[r].col] = db0[cmp[r].row][cmp[r].col])

\* C5: a reference is only ever overwritten with a URL the storage service
\* returned for an upload of the same request and column, by a request in
\* which a comparison for that column returned changed = true; a failed
\* upload (no URL) never leads to a write.
C5_WriteOnlyUploadedAfterChanged ==
    [][ \A i \in RowIds : \A c \in Cols :
          db'[i][c] # db[i][c]
            => \E r \in Reqs :
                 /\ pc[r] = "update"
                 /\ db'[i][c] = newUrl[r]
                 /\ db'[i][c].kind = "upload"
                 /\ db'[i][c].req = r
                 /\ db'[i][c].col = c
                 /\ db'[i][c] \in uploaded[r]
                 /\ c \in changedCols[r] ]_vars

C5_Witness == \E i \in RowIds : \E c \in Cols : db[i][c] # db0[i][c]

\* the contours the contour check of a direct call extracts
Extracted == FindContours(AbsDiff(inp.newF, inp.exF), inp.cs)

DetectScratchesDecided ==
    /\ out.called
    /\ inp.fn = "detect_scratches"
    /\ inp.newF.st = "image"
    /\ inp.exF.st = "image"

\* C6 as stated: with the area band [5, 1500] and the aspect band [0.5, 10],
\* the verdict of the contour strategy is true iff some extracted contour
\* has its area and its aspect ratio inside the bands, edges included
\* (area 5 and area 1500 give true). Stated for the calls whose debug write
\* does not raise.
C6_BandEdgesInclusive ==
    (DetectScratchesDecided /\ inp.dbg # "raise")
        => (out.det.result <=>
              \E c \in Extracted :
                  /\ c.area2 >= 10 /\ c.area2 <= 3000
                  /\ 2 * c.w >= c.h /\ c.w <= 10 * c.h)

\* C6 amended: the scratch flag of the contour strategy is true iff some
\* extracted contour has 5 < area < 1500 and 0.5 < w / h < 10, edges
\* excluded; the verdict returned is that flag, or false when the debug
\* write raised.
C6_BandEdgesExclusive ==
    DetectScratchesDecided
        => (/\ out.det.flag <=>
                 \E c \in Extracted :
                     /\ c.area2 > 10 /\ c.area2 < 3000
                     /\ 2 * c.w > c.h /\ c.w < 10 * c.h
            /\ out.det.result <=> (out.det.flag /\ inp.dbg # "raise"))

\* a contour of area 5, on the lower edge of the band, judged no scratch
C6_Witness ==
    /\ DetectScratchesDecided
    /\ ~out.det.flag
    /\ inp.dbg = "ok"
    /\ \E c \in Extracted : c.area2 = 10

TwoStageCompared(r) ==
    /\ Compared(r)
    /\ variant = "scooterscratch"
    /\ cmp[r].outcome # "exception"

RatioDefined(r) == cmp[r].newSt = "image" /\ cmp[r].exSt = "image" /\ ~cmp[r].desNone

C9_SameImageUnchanged ==
    \A r \in Reqs :
        (Compared(r) /\ cmp[r].same)
            => (/\ cmp[r].outcome = "unchanged"
                /\ pc[r] \notin {"upload", "update"})

C9_Witness ==
    \E r \in Reqs :
        /\ Compared(r)
        /\ cmp[r].same
        /\ variant = "scooterscratch"
        /\ cmp[r].contourRan

\* C10: the value a comparison returns is the same whether its debug write
\* succeeds, fails or raises.
C10_DebugWriteNeutral ==
    /\ (out.called /\ inp.fn = "scratchfabric")
          => out.det.result = detect_scratchfabric(inp.newF, inp.exF, inp.cs, "ok").result
    /\ (out.called /\ inp.fn = "detect_scratches")
          => out.det.result =
                detect_scratches(Decode(inp.newF), Decode(inp.exF), inp.cs, "ok").result

\* C11: a comparison call shares no mutable resource with the calls running
\* beside it: under any interleaving of two calls on distinct image pairs,
\* what a call has written is, when it returns, what it would have written
\* running alone (every debug file it wrote holds its own image), so neither
\* call overwrites data the other produced.
C11_CallsShareNothing ==
    \A k \in Calls :
        call[k].returned => \A s \in call[k].sideOut : s.holds = k

\* C12: every comparison call eventually returns, also when the server of
\* an image reference never answers (the fetch then ends with a timeout).
C12_EveryCallReturns == \A k \in Calls : <>(call[k].returned)

CanonicalShape == [w |-> CanonicalSize, h |-> CanonicalSize, ch |-> 1]

Ops(c) == { c.trace[i].op : i \in DOMAIN c.trace }

Pos(c, op) == CHOOSE i \in DOMAIN c.trace : c.trace[i].op = op

ExtractedContours(c) == "findContours" \in Ops(c)

ColsOf(r) == { paths[r][j] : j \in DOMAIN paths[r] }

HasReference(i, c) == RowKey[i] = ReqKey /\ Truthy(db0[i][c])

\* the comparison of the last step paired the new image of its column with
\* the stored reference of the same column of the row it was made for
PairedWithOwnColumn(r) ==
    /\ cmp[r].newRef.col = cmp[r].col
    /\ cmp[r].exRef = db0[cmp[r].row][cmp[r].col]
    /\ cmp[r].exRef.col = cmp[r].col

\* C14 as stated: for each column of a request the comparison is invoked
\* exactly once per stored row that has a reference in that column, and it
\* pairs the new image of column c with the stored reference of column c.
C14_OncePerRowWithReference ==
    \A r \in Reqs :
        /\ Compared(r) => PairedWithOwnColumn(r)
        /\ pc[r] = "done" =>
              \A c \in ColsOf(r) : \A i \in RowIds :
                  HasReference(i, c) => nCompared[r][c][i] = 1

PassedOver(r, c, i) ==
    \/ Skip(c, 0, "upload failed") \in skipped[r]
    \/ Skip(c, 0, "select failed") \in skipped[r]
    \/ Skip(c, i, "file not found") \in skipped[r]

\* C14 amended: for each column of a request the comparison is invoked at
\* most once per stored row, only for rows that have a reference in that
\* column, and it pairs the new image of column c with the reference of
\* column c of that row. In a request that ends with status 200 it is
\* invoked exactly once for every such row, except that none is compared
\* in a column whose upload failed (ishu.py, scooterscratch.py) or whose
\* SELECT failed, and a row whose new image file does not exist
\* (scooterscratchfabric.py) is not compared.
C14_AtMostOncePerRowSameColumn ==
    \A r \in Reqs :
        /\ Compared(r) => PairedWithOwnColumn(r)
        /\ \A c \in Cols : \A i \in RowIds :
              /\ nCompared[r][c][i] <= 1
              /\ nCompared[r][c][i] = 1 => (HasReference(i, c) /\ c \in ColsOf(r))
        /\ (pc[r] = "done" /\ http[r] = 200) =>
              \A c \in ColsOf(r) : \A i \in RowIds :
                  HasReference(i, c) =>
                      (nCompared[r][c][i] = 1 <=> ~PassedOver(r, c, i))

\* a finished request that compared both rows of a column, once each
C14_Witness ==
    \E r \in Reqs : \E c \in Cols :
        /\ pc[r] = "done"
        /\ http[r] = 200
        /\ nCompared[r][c][1] = 1
        /\ nCompared[r][c][2] = 1

\* the contours a direct call of a lower-bound variant extracted: none when
\* it left before cv2.findContours
ContoursSeen == IF out.det.decided THEN Extracted ELSE {}

LowerBoundCall ==
    /\ out.called
    /\ inp.fn \in {"ishu", "scratchfabric", "scooterscratchfabric"}
    /\ inp.newF.st = "image"
    /\ inp.exF.st = "image"

\* C16: in the variants with a lower area bound only, on two decoded images
\* the verdict is changed = true iff at least one contour found has an area
\* strictly greater than the threshold (10 in ishu.py and
\* scooterscratchfabric.py, 30 in scratchfabric.py); an area equal to the
\* threshold does not count, and neither an upper bound nor the aspect
\* ratio plays a part.
C16_LowerBoundStrict ==
    LowerBoundCall =>
        (out.det.result <=>
            \E c \in ContoursSeen :
                c.area2 > 2 * (IF inp.fn = "scratchfabric" THEN 30 ELSE 10))

\* a contour whose area equals the threshold of scratchfabric.py, judged
\* unchanged
C16_Witness ==
    /\ LowerBoundCall
    /\ inp.fn = "scratchfabric"
    /\ out.det.decided
    /\ \E c \in ContoursSeen : c.area2 = 60
    /\ ~out.det.result

\* C17: a stored row with no reference in a requested column is not
\* compared, and its column stays empty: the update flow never fills a
\* column that was empty.
C17_EmptyColumnStaysEmpty ==
    \A i \in RowIds : \A c \in Cols :
        ~Truthy(db0[i][c]) =>
            /\ db[i][c] = db0[i][c]
            /\ \A r \in Reqs : nCompared[r][c][i] = 0

\* C18: a row's reference is overwritten only by the step that follows a
\* comparison of the new image with that row's own current reference that
\* judged it changed; a change found on one row never overwrites another
\* row of the same (segment_id, model_type).
C18_OnlyComparedRowOverwritten ==
    [][ \A i \in RowIds : \A c \in Cols :
          db'[i][c] # db[i][c]
            => \E r \in Reqs :
                 /\ pc[r] = "update"
                 /\ Column(r) = c
                 /\ c \in changedCols[r]
                 /\ cars[r][ri[r]].id = i
                 /\ ExistingUrl(r) = db[i][c] ]_vars

AllImagesUploaded(u) == \A f \in FieldSet : Truthy(up[u].image_urls[f])

\* C19: a vehicle row is inserted only if every image of the request was
\* uploaded: when an image is missing from the request, its URL is not
\* accessible or its upload fails, the request does not end with the 201
\* success and inserts no row.
C19_InsertOnlyWithAllImages ==
    \A u \in Uploads :
        /\ up[u].inserted => AllImagesUploaded(u)
        /\ (up[u].pc = "done" /\ ~AllImagesUploaded(u)) =>
              (~up[u].inserted /\ up[u].http # 201)

\* the request's key had a row before the request came in
PreExisting(u) ==
    \E j \in DOMAIN vehicles : vehicles[j].by = "none" /\ vehicles[j].key = up[u].key

\* C20: an upload request whose (segment_id, segment_name, model_type)
\* already has a row inserts nothing and never answers 201; once its
\* existence check has run it answers "already exists", 200 in ika.py and
\* john.py, 409 in scooterfabric.py.
C20_ExistingKeyInsertsNothing ==
    \A u \in Uploads :
        PreExisting(u) =>
            /\ ~up[u].inserted
            /\ up[u].http # 201
            /\ \A j \in DOMAIN vehicles : vehicles[j].by # u
            /\ up[u].checked \notin {"none", "error"} =>
                  (/\ up[u].checked = "found"
                   /\ up[u].http = (IF variant = "scooterfabric" THEN 409 ELSE 200))

\* a request for an existing key answered "already exists"
C20_Witness ==
    \E u \in Uploads :
        /\ PreExisting(u)
        /\ up[u].pc = "done"
        /\ up[u].checked = "found"
        /\ AllImagesUploaded(u)

\* C21: under any interleaving of concurrent upload requests the vehicle
\* table holds at most one row per (segment_id, segment_name, model_type):
\* the existence check followed by the insert never lets two requests for
\* the same key both insert.
C21_AtMostOneRowPerKey ==
    \A i \in DOMAIN vehicles : \A j \in DOMAIN vehicles :
        vehicles[i].key = vehicles[j].key => i = j

\* this step of request r compared a pair
ComparesNow(r) == nCompared'[r] # nCompared[r]

\* this step is the last one request r takes for a pair that was compared
PairEnds(r) ==
    /\ pc'[r] \notin {"upload", "update"}
    /\ \/ pc[r] \in {"upload", "update"}
       \/ pc[r] = "row" /\ ComparesNow(r)

\* this step leaves more to do for the compared pair
PairGoesOn(r) ==
    /\ pc'[r] \in {"upload", "update"}
    /\ pc'[r] # pc[r]

\* a compared pair gets its one entry, with a status, at its last step
OneEntryWhenPairEnds(r) ==
    variant \in {"ishu", "scratchfabric", "scooterscratchfabric"} =>
        /\ PairGoesOn(r) => results'[r] = results[r]
        /\ PairEnds(r) =>
              /\ Len(results'[r]) = Len(results[r]) + 1
              /\ SubSeq(results'[r], 1, Len(results[r])) = results[r]
              /\ results'[r][Len(results'[r])].column = Column(r)
              /\ results'[r][Len(results'[r])].status # "(no status)"

\* C23: the update flow returns exactly one result entry, carrying a
\* status, for every (column, stored row) pair that has an existing
\* reference and was compared, whatever the outcome of the comparison, the
\* storage upload and the database update.
C23_OneEntryPerComparedPair ==
    [][ \A r \in Reqs : OneEntryWhenPairEnds(r) ]_vars

\* the reference request r read for row i when it retrieved column col
ReadAsBaseline(r, i, url) ==
    \E k \in DOMAIN cars[r] : cars[r][k].id = i /\ cars[r][k].image_url = url

\* this step is the UPDATE of request r
WritesNow(r) == pc[r] = "update" /\ pc'[r] # "update"

\* C22: under concurrent update requests for the same (segment_id,
\* model_type, column), every write of a reference replaces exactly the
\* reference that the written image was compared against: no request
\* overwrites a reference that another request stored after this request
\* read its baseline.
C22_WriteReplacesItsBaseline ==
    [][ \A r \in Reqs : \A i \in RowIds :
          (WritesNow(r) /\ db'[i][Column(r)] # db[i][Column(r)])
              => ReadAsBaseline(r, i, db[i][Column(r)]) ]_vars

\* the table holds a reference that request r wrote
Committed(r) ==
    \E i \in RowIds : \E c \in Cols : db[i][c].kind = "upload" /\ db[i][c].req = r

\* C24: if process_images answers with the 500 error response, no reference
\* update was committed by that request: a failure while processing one
\* column never follows a committed update of an earlier column or row of
\* the same request.
C24_ErrorAfterNoCommit ==
    variant = "scooterscratch" =>
        \A r \in Reqs : http[r] = 500 => ~Committed(r)

\* C25: in upload_scooter, when opening the database connection or executing
\* a statement fails with a database error, the request ends with the JSON
\* "Database error" response and status 500, every cursor and connection
\* that was opened is closed, and the cleanup step itself never raises.
C25_DatabaseErrorAnsweredAndCleaned ==
    variant = "scooterfabric" =>
        \A u \in Uploads :
            (up[u].pc = "done" /\ up[u].failed # "none") =>
                /\ up[u].http = 500
                /\ up[u].error = "Database error"
                /\ up[u].conn # "open"
                /\ up[u].cursor # "open"
                /\ ~up[u].raised

====
